---------------------------- MODULE Spec2Model ----------------------------
(***************************************************************************)
(* Metered-conversation billing engine of Astrorganism-Earth/luna.         *)
(*                                                                         *)
(* One account (Firestore document users/{uid}), its chatHistory           *)
(* sub-collection, its subscription documents, and the serverless          *)
(* handlers that read and write them:                                      *)
(*   - the chat handler, in its two versions: the eager-save version       *)
(*     (user turn written before anything else, balance field              *)
(*     energyPoints) and the batch version (user turn written in the       *)
(*     final batch, balance field energyBalance);                          *)
(*   - the Stripe webhook handlers: stripe-webhook-handler.ts,             *)
(*     stripe-webhook.ts and the helper-based stripe-webhook-handler.ts.   *)
(*                                                                         *)
(* A handler is split into one action per continuation that touches the    *)
(* document store; awaits on external services (token counter, model,      *)
(* Stripe) are folded into the continuation that follows them, their       *)
(* results being inputs drawn from small sets.                             *)
(*                                                                         *)
(* Arithmetic: the code computes costs in IEEE-754 doubles; the model uses *)
(* exact integer arithmetic on the same quantities (prices in hundredths   *)
(* of a dollar per million tokens).  The token counts enumerated below     *)
(* stay away from values where usd*250 is an exact integer.                *)
(***************************************************************************)
EXTENDS Integers, Sequences, FiniteSets, TLC

-----------------------------------------------------------------------------
(* Bounds of the model *)

\* number of chat requests of the account
MaxReqs == 2
\* number of webhook deliveries of the account
MaxEvents == 2
\* number of chat requests and webhook deliveries of the account together
MaxOps == 3
\* number of customer records at the payment processor
MaxCustomers == 2
\* number of access-code verification requests
MaxVerifications == 3

-----------------------------------------------------------------------------
(* Program constants *)

ENERGY_COST_MULTIPLIER == 250
\* GEMINI_PRICING.FLASH, in hundredths of a dollar per million tokens
PROMPT_UNDER_200K_USD == 125
OUTPUT_UNDER_200K_USD == 1000
PROMPT_OVER_200K_USD == 250
OUTPUT_OVER_200K_USD == 1500
THRESHOLD_TOKENS == 200000
maxOutputTokens == 8192

-----------------------------------------------------------------------------
(* Input domains *)

Reqs == 1..MaxReqs

\* results of countTokens / promptTokenCount reported by the model
TokenCounts == {4000, 300000}
\* candidatesTokenCount reported by the model, at most maxOutputTokens
OutCounts == {100, maxOutputTokens}
\* countTokens either throws or returns a total
CountResults == {[ok |-> FALSE, totalTokens |-> 0],
                 [ok |-> TRUE, totalTokens |-> 4000]}
\* response.usageMetadata: undefined, or the reported counters
UsageResults == {[present |-> FALSE, prompt |-> 0, candidates |-> 0]} \cup
                {[present |-> TRUE, prompt |-> p, candidates |-> c] :
                     p \in TokenCounts, c \in OutCounts}
\* balances an account document can hold when the first request arrives
InitBalances == {0, 25}

-----------------------------------------------------------------------------
(* Pure helpers *)

\* Math.ceil(n / d) for n >= 0, d > 0
Ceil(n, d) == (n + d - 1) \div d

\* Math.ceil(((in/1e6)*1.25 + (out/1e6)*10.00) * ENERGY_COST_MULTIPLIER):
\* hundredths of a dollar per million tokens, times the multiplier
EnergyCost(inputTokens, outputTokens) ==
    Ceil(inputTokens * PROMPT_UNDER_200K_USD + outputTokens * OUTPUT_UNDER_200K_USD,
         (100 * 1000000) \div ENERGY_COST_MULTIPLIER)

\* calculateGeminiCost (defined, never called), followed by
\* Math.ceil(usd * ENERGY_COST_MULTIPLIER)
calculateGeminiCost(inputTokens, outputTokens) ==
    LET isLargePrompt == inputTokens > THRESHOLD_TOKENS
        inputPrice == IF isLargePrompt THEN PROMPT_OVER_200K_USD
                                       ELSE PROMPT_UNDER_200K_USD
        outputPrice == IF isLargePrompt THEN OUTPUT_OVER_200K_USD
                                        ELSE OUTPUT_UNDER_200K_USD
    IN Ceil(inputTokens * inputPrice + outputTokens * outputPrice,
            (100 * 1000000) \div ENERGY_COST_MULTIPLIER)

\* estimatedInputTokens after the try/catch around countTokens
EstimatedInputTokens(count) == IF count.ok THEN count.totalTokens ELSE 0

\* maxPotentialEnergyCost
MaxPotentialEnergyCost(estimatedInputTokens) ==
    EnergyCost(estimatedInputTokens, maxOutputTokens)

\* a balance check that only turns away empty accounts
InsufficientBalancePositiveOnly(maxPotentialEnergyCost, currentBalance) ==
    currentBalance <= 0

\* if (maxPotentialEnergyCost > currentEnergyPoints)
InsufficientBalance(maxPotentialEnergyCost, currentBalance) ==
    maxPotentialEnergyCost > currentBalance

\* inputTokens / outputTokens after the usageMetadata branch
ActualInputTokens(usage, estimatedInputTokens) ==
    IF usage.present THEN usage.prompt ELSE estimatedInputTokens
ActualOutputTokens(usage) ==
    IF usage.present THEN usage.candidates ELSE maxOutputTokens

\* a commit without the final negative-balance check
NegativeBalanceUnchecked(newBalance) == FALSE

\* if (newEnergyPoints < 0)
NegativeBalance(newBalance) == newBalance < 0

\* chatHistory documents
UserTurn(r) == [role |-> "user", req |-> r, energyCost |-> 0,
                input |-> 0, output |-> 0]
AssistantTurn(r, inTok, outTok, cost) ==
    [role |-> "assistant", req |-> r, energyCost |-> cost,
     input |-> inTok, output |-> outTok]

-----------------------------------------------------------------------------
(* Stripe webhook inputs *)

MONTHLY_ENERGY_GRANT == 11111
ANNUAL_ENERGY_GRANT == 111111
\* energyIncrement literals of handleCheckoutSessionCompleted
MonthlyEnergyIncrement == 1111
AnnualEnergyIncrement == 11111

monthlyPriceId == "price_monthly"
annualPriceId == "price_annual"

EventTypes == {"checkout.session.completed", "customer.subscription.updated",
               "customer.subscription.deleted", "invoice.payment_succeeded",
               "invoice.paid"}
Statuses == {"active", "past_due", "canceled"}
PriceIds == {monthlyPriceId, annualPriceId, "price_other"}

\* A verified Stripe event about the account's customer cus_1 and its
\* subscription sub_1.  metadataUid: the checkout session carries
\* metadata.firebaseUid; linked: the customer is not deleted and its
\* metadata carries firebaseUid; status, priceId, current_period_end: the
\* subscription the event embeds or the handler retrieves.
\* Only a checkout session carries session metadata.  No endpoint reads the
\* subscription of an event it cannot link to the account, so such events
\* are enumerated with one subscription.
Events == {e \in [type : EventTypes, metadataUid : BOOLEAN, linked : BOOLEAN,
                  status : Statuses, priceId : PriceIds, current_period_end : {1}] :
              /\ e.metadataUid => e.type = "checkout.session.completed"
              /\ (~e.metadataUid /\ ~e.linked)
                    => (e.status = "active" /\ e.priceId = monthlyPriceId)}

\* the events delivered while chat requests are in flight: those of a linked
\* customer with an active monthly subscription, the checkout session
\* carrying the account's uid in its metadata
RaceEvents == {e \in Events : /\ e.linked
                              /\ e.metadataUid = (e.type = "checkout.session.completed")
                              /\ e.status = "active"
                              /\ e.priceId = monthlyPriceId
                              /\ e.type \in {"checkout.session.completed",
                                             "customer.subscription.updated",
                                             "customer.subscription.deleted"}}

Handlers == {"stripe-webhook-handler", "stripe-webhook", "stripe-webhook-handler-v1"}

\* stripe-webhook-handler.ts: getRoleFromSubscription
getRoleFromSubscription(status, priceId) ==
    IF status \in {"active", "trialing"}
    THEN IF priceId = monthlyPriceId THEN "monthly"
         ELSE IF priceId = annualPriceId THEN "annual" ELSE "null"
    ELSE "null"

\* helper-based stripe-webhook-handler.ts: getRoleFromSubscription
getRoleFromSubscriptionV1(status, priceId) ==
    IF status \notin {"active", "trialing", "past_due"} THEN "null"
    ELSE IF priceId = monthlyPriceId THEN "monthly"
    ELSE IF priceId = annualPriceId THEN "annual" ELSE "null"

-----------------------------------------------------------------------------
(* Handlers as functions of the document store *)

\* S = [userDoc, subscriptionsStripe, subscriptionStatus, customClaims]

\* a checkout that grants the annual amount whatever the plan
CheckoutGrantFlat(roleToSet) == ANNUAL_ENERGY_GRANT

\* FieldValue.increment(roleToSet === 'monthly' ? MONTHLY : ANNUAL)
CheckoutGrant(roleToSet) ==
    IF roleToSet = "monthly" THEN MONTHLY_ENERGY_GRANT ELSE ANNUAL_ENERGY_GRANT

\* energyPoints written by customer.subscription.deleted
DeletedEnergyPoints(energyPoints) == 0

\* stripe-webhook-handler.ts, case 'checkout.session.completed'
HandlerCheckoutCompleted(S, e) ==
    LET resolved == e.metadataUid \/ e.linked
        roleToSet == getRoleFromSubscription(e.status, e.priceId)
    IN IF ~resolved THEN S
       ELSE [S EXCEPT
              !.customClaims.stripeRole = roleToSet,
              !.userDoc.exists = TRUE,
              !.userDoc.stripeCustomerId = "cus_1",
              !.userDoc.stripeSubscriptionId = "sub_1",
              !.userDoc.stripeRole = roleToSet,
              !.userDoc.subscriptionStatus = e.status,
              !.userDoc.currentPeriodEnd = e.current_period_end,
              !.userDoc.priceId = e.priceId,
              !.userDoc.energyPoints = @ + CheckoutGrant(roleToSet)]

\* stripe-webhook-handler.ts, case 'customer.subscription.updated' / 'deleted'
HandlerSubscriptionChanged(S, e) ==
    LET deleted == e.type = "customer.subscription.deleted"
        roleToSet == IF deleted THEN "null"
                     ELSE getRoleFromSubscription(e.status, e.priceId)
    IN IF ~e.linked THEN S
       ELSE IF ~S.userDoc.exists
            \* userDocRef.update rejects for a missing document; caught
            THEN [S EXCEPT !.customClaims.stripeRole = roleToSet]
            ELSE [S EXCEPT
                   !.customClaims.stripeRole = roleToSet,
                   !.userDoc.stripeSubscriptionId = "sub_1",
                   !.userDoc.stripeRole = roleToSet,
                   !.userDoc.subscriptionStatus = e.status,
                   !.userDoc.currentPeriodEnd = e.current_period_end,
                   !.userDoc.priceId = e.priceId,
                   !.userDoc.energyPoints =
                        IF deleted THEN DeletedEnergyPoints(@) ELSE @]

\* stripe-webhook-handler.ts, handler: the switch on stripeEvent.type
Handler(S, e) ==
    IF e.type = "checkout.session.completed" THEN HandlerCheckoutCompleted(S, e)
    ELSE IF e.type \in {"customer.subscription.updated",
                        "customer.subscription.deleted"}
         THEN HandlerSubscriptionChanged(S, e)
         ELSE S

\* stripe-webhook.ts: updateFirebaseSubscriptionData (set with merge)
updateFirebaseSubscriptionData(S, status, planId, currentPeriodEnd) ==
    [S EXCEPT !.subscriptionsStripe =
        [exists |-> TRUE, status |-> status, planId |-> planId,
         currentPeriodEnd |-> currentPeriodEnd, customerId |-> "cus_1"]]

\* a grant that is the monthly amount whatever the plan
PlanGrantSame(planId) == MONTHLY_ENERGY_GRANT

\* FieldValue.increment(planId === monthlyPriceId ? MONTHLY : ANNUAL)
PlanGrant(planId) ==
    IF planId = monthlyPriceId THEN MONTHLY_ENERGY_GRANT ELSE ANNUAL_ENERGY_GRANT

\* users/{uid}.set({energyBalance: increment(g)}, {merge: true})
IncrementEnergyBalance(S, g) ==
    [S EXCEPT !.userDoc.exists = TRUE, !.userDoc.energyBalance = @ + g]

\* energy granted by 'customer.subscription.updated' of stripe-webhook.ts
UpdatedGrant(planId) == PlanGrant(planId)

\* an invoice handler that tops the balance up on every paid invoice
InvoicePaymentSucceededGranting(S, e) ==
    IF e.linked
    THEN IncrementEnergyBalance(
             updateFirebaseSubscriptionData(S, e.status, e.priceId,
                                            e.current_period_end),
             PlanGrant(e.priceId))
    ELSE S

\* stripe-webhook.ts, case 'invoice.payment_succeeded' (invoice paid, with a
\* subscription line item, subscription retrieved)
InvoicePaymentSucceeded(S, e) ==
    IF e.linked
    THEN updateFirebaseSubscriptionData(S, e.status, e.priceId,
                                        e.current_period_end)
    ELSE S

\* stripe-webhook.ts, handler: the switch on stripeEvent.type
StripeWebhook(S, e) ==
    CASE e.type = "checkout.session.completed" ->
           IF e.metadataUid
           THEN IncrementEnergyBalance(
                    updateFirebaseSubscriptionData(S, e.status, e.priceId,
                                                   e.current_period_end),
                    PlanGrant(e.priceId))
           ELSE S
      [] e.type = "customer.subscription.deleted" ->
           IF e.linked
           THEN updateFirebaseSubscriptionData(S, "inactive", "null", 0)
           ELSE S
      [] e.type = "customer.subscription.updated" ->
           IF e.linked
           THEN IncrementEnergyBalance(
                    updateFirebaseSubscriptionData(S, e.status, e.priceId,
                                                   e.current_period_end),
                    UpdatedGrant(e.priceId))
           ELSE S
      [] e.type = "invoice.payment_succeeded" -> InvoicePaymentSucceeded(S, e)
      [] OTHER -> S

\* helper-based version: updateUserSubscriptionInFirestore (set with merge
\* on users/{uid}/subscription/status)
updateUserSubscriptionInFirestore(S, status, plan, endDate, energyIncrement) ==
    [S EXCEPT !.subscriptionStatus =
        [exists |-> TRUE, status |-> status, plan |-> plan, endDate |-> endDate,
         stripeCustomerId |-> "cus_1", stripeSubscriptionId |-> "sub_1",
         energyBalance |-> IF energyIncrement > 0
                           THEN @.energyBalance + energyIncrement
                           ELSE @.energyBalance]]

\* helper-based version: handleCheckoutSessionCompleted
handleCheckoutSessionCompleted(S, e) ==
    IF ~e.linked THEN S
    ELSE LET role == getRoleFromSubscriptionV1(e.status, e.priceId)
             energyIncrement ==
                 IF e.status \in {"active", "trialing"}
                 THEN IF role = "monthly" THEN MonthlyEnergyIncrement
                      ELSE IF role = "annual" THEN AnnualEnergyIncrement ELSE 0
                 ELSE 0
         IN [updateUserSubscriptionInFirestore(S, e.status, role,
                 e.current_period_end, energyIncrement)
               EXCEPT !.customClaims.stripeRole = role]

\* helper-based version: handleSubscriptionUpdate
handleSubscriptionUpdate(S, e) ==
    IF ~e.linked THEN S
    ELSE LET role == getRoleFromSubscriptionV1(e.status, e.priceId)
         IN [updateUserSubscriptionInFirestore(S, e.status, role,
                 e.current_period_end, 0)
               EXCEPT !.customClaims.stripeRole = role]

\* helper-based version: handleSubscriptionDeleted
handleSubscriptionDeleted(S, e) ==
    IF ~e.linked THEN S
    ELSE [updateUserSubscriptionInFirestore(S, "canceled", "null", 0, 0)
            EXCEPT !.customClaims.stripeRole = "null"]

\* helper-based version, handler: the switch on stripeEvent.type
StripeWebhookHandlerV1(S, e) ==
    CASE e.type = "checkout.session.completed" -> handleCheckoutSessionCompleted(S, e)
      [] e.type = "customer.subscription.updated" -> handleSubscriptionUpdate(S, e)
      [] e.type = "customer.subscription.deleted" -> handleSubscriptionDeleted(S, e)
      [] OTHER -> S

\* the store after endpoint h has processed event e
Process(h, S, e) ==
    IF h = "stripe-webhook-handler" THEN Handler(S, e)
    ELSE IF h = "stripe-webhook" THEN StripeWebhook(S, e)
    ELSE StripeWebhookHandlerV1(S, e)

-----------------------------------------------------------------------------
(* Webhook endpoints as functions of the HTTP delivery *)

SignatureStates == {"valid", "invalid", "missing"}

\* The conditions of one delivery.  sig: the stripe-signature header against
\* the configured secret; dev: the function runs in development mode
\* (NETLIFY_DEV === 'true', NODE_ENV === 'development'); writeFails: the
\* Firestore writes of the invocation reject; retrieveFails:
\* stripe.subscriptions.retrieve rejects.  The body is present and parses.
Conditions == [sig : SignatureStates, dev : BOOLEAN,
               writeFails : BOOLEAN, retrieveFails : BOOLEAN]

\* a signed delivery in production, no call failing
Normal == [sig |-> "valid", dev |-> FALSE,
           writeFails |-> FALSE, retrieveFails |-> FALSE]

\* the conditions enumerated: failing calls on signed production deliveries
DeliveryConditions ==
    {c \in Conditions :
        (c.sig # "valid" \/ c.dev) => (~c.writeFails /\ ~c.retrieveFails)}

\* an endpoint that parses whatever it receives
HandlerAcceptsUnsigned(c) == TRUE

\* stripe-webhook-handler.ts: the payload reaches the switch
HandlerAccepts(c) ==
    IF c.sig = "missing" /\ ~c.dev THEN FALSE
    ELSE IF c.dev THEN TRUE
    ELSE c.sig = "valid"

\* stripe-webhook.ts: the payload reaches the switch
StripeWebhookAccepts(c) == c.sig = "valid"

\* helper-based stripe-webhook-handler.ts: the payload reaches the switch
HandlerV1Accepts(c) ==
    IF c.sig = "missing" THEN FALSE
    ELSE IF ~c.dev THEN c.sig = "valid"
    ELSE TRUE

\* the store after the invocation and its answer; handled is the field of
\* the body of stripe-webhook-handler.ts, FALSE where the body has none
Answer(S, statusCode, handled) ==
    [store |-> S, statusCode |-> statusCode, handled |-> handled]

\* the store T an invocation computed, when its Firestore writes rejected:
\* the documents are those of S, the custom claims those of T
WritesRejected(S, T) ==
    [T EXCEPT !.userDoc = S.userDoc,
              !.subscriptionsStripe = S.subscriptionsStripe,
              !.subscriptionStatus = S.subscriptionStatus]

\* stripe-webhook-handler.ts, handler: store and HTTP answer
HandlerEndpoint(S, e, c) ==
    IF ~HandlerAccepts(c) THEN Answer(S, 400, FALSE)
    ELSE IF e.type = "checkout.session.completed" /\ c.retrieveFails
         \* the rejection reaches the outer catch
         THEN Answer(S, 500, FALSE)
         ELSE Answer(IF c.writeFails THEN WritesRejected(S, Handler(S, e))
                                     ELSE Handler(S, e),
                     200,
                     e.type \in {"checkout.session.completed",
                                 "customer.subscription.updated",
                                 "customer.subscription.deleted"})

\* stripe-webhook.ts, handler: store and HTTP answer
StripeWebhookEndpoint(S, e, c) ==
    IF ~StripeWebhookAccepts(c) THEN Answer(S, 400, FALSE)
    ELSE IF e.type = "checkout.session.completed"
         \* retrieve and both writes sit in the inner try
         THEN Answer(IF c.retrieveFails \/ c.writeFails THEN S
                                                        ELSE StripeWebhook(S, e),
                     200, FALSE)
    ELSE IF e.type = "customer.subscription.updated" /\ e.linked /\ c.writeFails
         \* the energyBalance write rejects outside any inner try
         THEN Answer(S, 500, FALSE)
    ELSE IF e.type = "invoice.payment_succeeded" /\ e.linked /\ c.retrieveFails
         \* fallback: updateFirebaseSubscriptionData({status: 'active', customerId})
         THEN Answer(IF c.writeFails THEN S
                     ELSE [S EXCEPT !.subscriptionsStripe.exists = TRUE,
                                    !.subscriptionsStripe.status = "active",
                                    !.subscriptionsStripe.customerId = "cus_1"],
                     200, FALSE)
    ELSE Answer(IF c.writeFails THEN S ELSE StripeWebhook(S, e), 200, FALSE)

\* helper-based stripe-webhook-handler.ts, handler: store and HTTP answer
HandlerV1Endpoint(S, e, c) ==
    IF ~HandlerV1Accepts(c) THEN Answer(S, 400, FALSE)
    ELSE IF e.type = "checkout.session.completed" /\ e.linked /\ c.retrieveFails
         \* handleCheckoutSessionCompleted logs and returns
         THEN Answer(S, 200, FALSE)
         ELSE Answer(IF c.writeFails
                     THEN WritesRejected(S, StripeWebhookHandlerV1(S, e))
                     ELSE StripeWebhookHandlerV1(S, e),
                     200, FALSE)

\* endpoint h receives event e under conditions c
Endpoint(h, S, e, c) ==
    IF h = "stripe-webhook-handler" THEN HandlerEndpoint(S, e, c)
    ELSE IF h = "stripe-webhook" THEN StripeWebhookEndpoint(S, e, c)
    ELSE HandlerV1Endpoint(S, e, c)

-----------------------------------------------------------------------------
(* Customer-link resolution as a function of the customer list *)

\* accounts of the identity provider and the emails of their tokens
Accounts == {"u1", "u2"}
Emails == {"a@x", "b@x"}

\* the calls enumerated, as <<uid, email>> of the verified token: u1 signs
\* in under either address, u2 is another account of the address a@x
Callers == {<<"u1", "a@x">>, <<"u1", "b@x">>, <<"u2", "a@x">>}

\* utils/stripeUtils (claims, then email, then create) and the function
\* nested in the handler of create-checkout-session.ts
ResolverVersions == {"stripeUtils", "inline"}

\* A customer record: its email, metadata.firebaseUid ("null" when absent)
\* and whether Stripe reports it deleted.  The id of a customer is its
\* position in the list; 0 stands for no customer.
Customer(email, firebaseUid) ==
    [email |-> email, firebaseUid |-> firebaseUid, deleted |-> FALSE]

\* The requests of one call that reject: stripe.customers.retrieve (no such
\* customer for the key in use, or the request failed), customers.list,
\* customers.create, customers.update and admin.auth().setCustomUserClaims.
Faults == [retrieve : BOOLEAN, list : BOOLEAN, create : BOOLEAN,
           update : BOOLEAN, setClaims : BOOLEAN]

\* the faults enumerated: a rejected list or create ends the call with
\* customerId null whatever else rejects, so each is taken alone
FaultCases ==
    {f \in Faults : (f.list \/ f.create) =>
        (~f.retrieve /\ ~f.update /\ ~f.setClaims /\ ~(f.list /\ f.create))}

NoFault == [retrieve |-> FALSE, list |-> FALSE, create |-> FALSE,
            update |-> FALSE, setClaims |-> FALSE]

\* a listing that never returns a customer
ListByEmailEmpty(C, email) == {}

\* stripe.customers.list({ email, limit: 100 }): the customers with that
\* email that are not deleted; Stripe lists the most recent first
ListByEmail(C, email) ==
    {i \in DOMAIN C : C[i].email = email /\ ~C[i].deleted}

\* the first element of a listing, 0 for an empty one
FirstListed(ids) ==
    IF ids = {} THEN 0 ELSE CHOOSE i \in ids : \A j \in ids : j <= i

\* the customer list, the account's claim, the returned customerId (0 for
\* null) and whether error is set
CustomerResult(C, pointer, customerId, error) ==
    [customers |-> C, pointer |-> pointer, customerId |-> customerId,
     error |-> error]

\* a resolver that trusts the id in the claims without retrieving it
VerifiedInClaimsUnchecked(C, existingStripeCustomerId, f) ==
    existingStripeCustomerId # 0

\* the id in the claims was retrieved and is not deleted
VerifiedInClaims(C, existingStripeCustomerId, f) ==
    /\ existingStripeCustomerId # 0
    /\ ~f.retrieve
    /\ ~C[existingStripeCustomerId].deleted

\* if (!customer.metadata?.firebaseUid) stripe.customers.update(...), the
\* rejection caught
EnsureMetadata(C, i, uid, f) ==
    IF C[i].firebaseUid = "null" /\ ~f.update
    THEN [C EXCEPT ![i].firebaseUid = uid]
    ELSE C

\* utils/stripeUtils: findOrCreateStripeCustomer(uid, email, stripe)
findOrCreateStripeCustomer(uid, email, C, pointer, f) ==
    LET foundCustomer == FirstListed(ListByEmail(C, email))
        newCustomer == Len(C) + 1
    IN IF VerifiedInClaims(C, pointer, f)
       THEN CustomerResult(EnsureMetadata(C, pointer, uid, f), pointer,
                           pointer, FALSE)
       ELSE IF f.list THEN CustomerResult(C, pointer, 0, TRUE)
       ELSE IF foundCustomer # 0
            THEN CustomerResult(EnsureMetadata(C, foundCustomer, uid, f),
                                IF f.setClaims THEN pointer ELSE foundCustomer,
                                foundCustomer, f.setClaims)
       ELSE IF f.create THEN CustomerResult(C, pointer, 0, TRUE)
       ELSE CustomerResult(Append(C, Customer(email, uid)),
                           IF f.setClaims THEN pointer ELSE newCustomer,
                           newCustomer, f.setClaims)

\* create-checkout-session.ts: the nested findOrCreateStripeCustomer; a
\* rejection of list or create is thrown and answered with 500
findOrCreateStripeCustomerInline(uid, email, C, pointer, f) ==
    LET customer == FirstListed({i \in ListByEmail(C, email) :
                                    C[i].firebaseUid = uid})
    IN IF f.list THEN CustomerResult(C, pointer, 0, TRUE)
       ELSE IF customer # 0 THEN CustomerResult(C, pointer, customer, FALSE)
       ELSE IF f.create THEN CustomerResult(C, pointer, 0, TRUE)
       ELSE CustomerResult(Append(C, Customer(email, uid)), pointer,
                           Len(C) + 1, FALSE)

\* the result of a call of the given version
Resolve(version, uid, email, C, pointer, f) ==
    IF version = "stripeUtils"
    THEN findOrCreateStripeCustomer(uid, email, C, pointer, f)
    ELSE findOrCreateStripeCustomerInline(uid, email, C, pointer, f)

\* no call yet, or the customer list changed since the latest call
NoCall == [version |-> "none", uid |-> "null", retrieveRejected |-> FALSE,
           customerId |-> 0, error |-> FALSE, pointerBefore |-> 0]

-----------------------------------------------------------------------------
(* Access gate *)

Verifications == 1..MaxVerifications

\* the codes of the accessCodes collection: an invitation that is valid and
\* unused, and one with isValid false
StoredCodes == {"invite", "revoked"}

\* the accessCode of a request body: a stored code or one the query does not
\* find
RequestCodes == StoredCodes \cup {"unknown"}

GateEmails == {"a@x", "b@x"}

\* an accessCodes document before any verification; usedTimestamp 0 and
\* usedByEmail "null" stand for the absent fields
NewAccessCode(isValid) ==
    [isValid |-> isValid, isUsed |-> FALSE, usedByEmail |-> "null",
     usedTimestamp |-> 0]

\* querySnapshot.empty
NoCodeData == [isValid |-> FALSE, isUsed |-> FALSE, usedByEmail |-> "null",
               usedTimestamp |-> 0]

IdleVerification ==
    [pc |-> "idle", email |-> "null", accessCode |-> "null", empty |-> TRUE,
     codeData |-> NoCodeData, statusCode |-> 0, verified |-> FALSE]

\* doc.ref.update({isUsed: true, usedByEmail: email, usedTimestamp:
\* serverTimestamp()}); the server time of the write of request v is v
MarkUsed(doc, email, v) ==
    [doc EXCEPT !.isUsed = TRUE, !.usedByEmail = email, !.usedTimestamp = v]

\* a gate that lets every email reuse a code in use
UsedByAnotherIgnored(codeData, email) == FALSE

\* if (codeData.usedByEmail !== email): a code in use is refused to another
\* email
UsedByAnother(codeData, email) == codeData.usedByEmail # email

-----------------------------------------------------------------------------
(* Turns handed to the model *)

\* A Content of the Gemini API; req names the request whose text the part
\* carries, 0 the fixed text of the preamble
INITIAL_CONVERSATION_PRELOAD ==
    <<[role |-> "user", req |-> 0], [role |-> "model", req |-> 0]>>

\* historySnapshot.docs.map(...): Firestore role 'assistant' becomes 'model'
Content(turn) ==
    [role |-> IF turn.role = "assistant" THEN "model" ELSE "user",
     req |-> turn.req]

\* history: the snapshot of the collection, ordered by timestamp
History(snapshot) == [i \in 1..Len(snapshot) |-> Content(snapshot[i])]

\* the new user input of request r
userMessage(r) == [role |-> "user", req |-> r]

\* history.slice(0, -1)
SliceLast(history) == SubSeq(history, 1, Len(history) - 1)

\* eager-save version: startChat({history: [...PRELOAD,
\* ...history.slice(0, -1)]}) and sendMessage(userMessageContent)
ModelInputEager(snapshot, r) ==
    INITIAL_CONVERSATION_PRELOAD \o SliceLast(History(snapshot))
        \o <<userMessage(r)>>

\* batch version: startChat({history: [...PRELOAD, ...history]}) and
\* sendMessage(userMessageContent)
ModelInputBatch(snapshot, r) ==
    INITIAL_CONVERSATION_PRELOAD \o History(snapshot) \o <<userMessage(r)>>

\* the turn sequence request r hands to the model
ModelInput(version, snapshot, r) ==
    IF version = "eager" THEN ModelInputEager(snapshot, r)
    ELSE ModelInputBatch(snapshot, r)

-----------------------------------------------------------------------------
VARIABLES
    userDoc,             \* users/{uid}
    subscriptionsStripe, \* users/{uid}/subscriptions/stripe
    subscriptionStatus,  \* users/{uid}/subscription/status
    customClaims,        \* custom claims of the identity-provider user
    chatHistory,         \* users/{uid}/chatHistory ordered by timestamp
    req,                 \* per chat request: position and locals of its handler
    arrived,             \* number of chat requests received so far
    delivered,           \* number of webhook deliveries processed so far
    lastDelivery,        \* the endpoint and event of the latest delivery
    lastConditions,      \* the conditions of the latest delivery
    lastResponse,        \* the HTTP answer to the latest delivery
    storeBefore,         \* the document store before the latest delivery
    client,              \* the sign-in of the account's browser session
    customers,           \* the customer records of the payment processor, oldest first
    stripeCustomerIdClaim, \* per account: customClaims.stripeCustomerId, 0 when absent
    lastCall,            \* the latest findOrCreateStripeCustomer call and its result
    accessCodes,         \* the documents of the accessCodes collection, by code
    verification         \* per verification request: position and locals of its handler

store == [userDoc |-> userDoc, subscriptionsStripe |-> subscriptionsStripe,
          subscriptionStatus |-> subscriptionStatus, customClaims |-> customClaims]

vars == <<userDoc, subscriptionsStripe, subscriptionStatus, customClaims,
          chatHistory, req, arrived, delivered, lastDelivery, lastConditions,
          lastResponse, storeBefore, client, customers, stripeCustomerIdClaim,
          lastCall, accessCodes, verification>>

\* the state of the customer-link resolution
linkVars == <<customers, stripeCustomerIdClaim, lastCall>>

\* the state of the access gate
gateVars == <<accessCodes, verification>>

NoDelivery == [handler |-> "none", event |-> CHOOSE e \in Events : TRUE]

NoResponse == [statusCode |-> 0, currentBalance |-> 0, estimatedCost |-> 0,
               reply |-> FALSE, state_saved |-> TRUE,
               updatedBalance |-> 0, energyCost |-> 0]

IdleReq == [pc |-> "idle", version |-> "none", balance |-> 0,
            estimatedInputTokens |-> 0, maxPotentialEnergyCost |-> 0,
            energyCost |-> 0, modelCalls |-> 0, response |-> NoResponse]

\* a users/{uid} document as the sign-in code creates it.  The handlers read
\* a balance field as data()?.field ?? 0, so a missing field is the number 0.
NewUserDoc(exists, energy) ==
    [exists |-> exists, energyPoints |-> energy, energyBalance |-> energy,
     stripeCustomerId |-> "null", stripeSubscriptionId |-> "null",
     stripeRole |-> "null", subscriptionStatus |-> "inactive",
     currentPeriodEnd |-> 0, priceId |-> "null"]

TypeOK ==
    /\ userDoc.exists \in BOOLEAN
    /\ userDoc.energyPoints \in Int
    /\ userDoc.energyBalance \in Int
    /\ subscriptionStatus.energyBalance \in Int
    /\ arrived \in 0..MaxReqs
    /\ delivered \in 0..MaxEvents
    /\ arrived + delivered <= MaxOps
    /\ lastDelivery.handler \in Handlers \cup {"none"}
    /\ \A r \in Reqs : req[r].pc \in {"idle", "saved", "read", "calling", "done"}

Init ==
    /\ userDoc \in {NewUserDoc(TRUE, b) : b \in InitBalances}
                     \cup {NewUserDoc(FALSE, 0)}
    /\ subscriptionsStripe = [exists |-> FALSE, status |-> "null", planId |-> "null",
                              currentPeriodEnd |-> 0, customerId |-> "null"]
    /\ subscriptionStatus = [exists |-> FALSE, status |-> "null", plan |-> "null",
                             endDate |-> 0, stripeCustomerId |-> "null",
                             stripeSubscriptionId |-> "null", energyBalance |-> 0]
    /\ customClaims = [stripeRole |-> "null"]
    /\ chatHistory = << >>
    /\ req = [r \in Reqs |-> IdleReq]
    /\ arrived = 0
    /\ delivered = 0
    /\ lastDelivery = NoDelivery
    /\ lastConditions = Normal
    /\ lastResponse = [statusCode |-> 0, handled |-> FALSE]
    /\ storeBefore = store
    /\ client = [pc |-> "signedOut", version |-> "none", fetchedRole |-> "null"]
    /\ customers = << >>
    /\ stripeCustomerIdClaim = [a \in Accounts |-> 0]
    /\ lastCall = NoCall
    /\ accessCodes = [c \in StoredCodes |-> NewAccessCode(c # "revoked")]
    /\ verification = [v \in Verifications |-> IdleVerification]

-----------------------------------------------------------------------------
(* Chat handler *)

Respond(r, resp) ==
    [req EXCEPT ![r].pc = "done", ![r].response = resp]

webhookVars == <<subscriptionsStripe, subscriptionStatus, customClaims,
                 delivered, lastDelivery, lastConditions, lastResponse,
                 storeBefore, linkVars, gateVars>>

\* eager-save version: chatCollectionRef.add({role:'user', ...}) succeeds
SaveUserMessage(r) ==
    /\ req[r].pc = "idle"
    /\ r = arrived + 1
    /\ arrived + delivered < MaxOps
    /\ arrived' = r
    /\ chatHistory' = Append(chatHistory, UserTurn(r))
    /\ req' = [req EXCEPT ![r].pc = "saved", ![r].version = "eager"]
    /\ UNCHANGED <<userDoc, webhookVars, client>>

\* eager-save version: chatCollectionRef.add rejects, the handler answers 500
SaveUserMessageFails(r) ==
    /\ req[r].pc = "idle"
    /\ r = arrived + 1
    /\ arrived + delivered < MaxOps
    /\ arrived' = r
    /\ req' = [req EXCEPT ![r].pc = "done", ![r].version = "eager",
                     ![r].response = [NoResponse EXCEPT !.statusCode = 500,
                                                        !.state_saved = FALSE]]
    /\ UNCHANGED <<userDoc, chatHistory, webhookVars, client>>

\* eager-save version: userDocRef.get(), 404 when the document is missing,
\* else currentEnergyPoints is what the rest of the handler uses
FetchUserDoc(r) ==
    /\ req[r].pc = "saved"
    /\ IF ~userDoc.exists
       THEN req' = Respond(r, [NoResponse EXCEPT !.statusCode = 404])
       ELSE req' = [req EXCEPT ![r].pc = "read",
                               ![r].balance = userDoc.energyPoints]
    /\ UNCHANGED <<userDoc, chatHistory, arrived, webhookVars, client>>

\* batch version: userDocRef.get() is the first access to the store; the
\* snapshot's energyBalance is what the rest of the handler uses
FetchUserDocBatch(r) ==
    /\ req[r].pc = "idle"
    /\ r = arrived + 1
    /\ arrived + delivered < MaxOps
    /\ arrived' = r
    /\ IF ~userDoc.exists
       THEN req' = [req EXCEPT ![r].pc = "done", ![r].version = "batch",
                        ![r].response = [NoResponse EXCEPT !.statusCode = 404]]
       ELSE req' = [req EXCEPT ![r].pc = "read", ![r].version = "batch",
                               ![r].balance = userDoc.energyBalance]
    /\ UNCHANGED <<userDoc, chatHistory, webhookVars, client>>

\* history read, countTokens, worst-case estimate and the balance check;
\* the history snapshot read here is the one the model call is built from
CheckBalance(r, count) ==
    /\ req[r].pc = "read"
    /\ LET estIn == EstimatedInputTokens(count)
           est == MaxPotentialEnergyCost(estIn)
       IN IF InsufficientBalance(est, req[r].balance)
          THEN req' = [req EXCEPT ![r].pc = "done",
                           ![r].estimatedInputTokens = estIn,
                           ![r].maxPotentialEnergyCost = est,
                           ![r].response = [NoResponse EXCEPT
                               !.statusCode = 402,
                               !.currentBalance = req[r].balance,
                               !.estimatedCost = est]]
          ELSE req' = [req EXCEPT ![r].pc = "calling",
                           ![r].estimatedInputTokens = estIn,
                           ![r].maxPotentialEnergyCost = est,
                           ![r].modelCalls = @ + 1]
    /\ UNCHANGED <<userDoc, chatHistory, arrived, webhookVars, client>>

\* eager-save version: batch of the assistant turn and energyPoints
CommitEager(r, inTok, outTok, energyCost, newBalance) ==
    /\ chatHistory' = Append(chatHistory, AssistantTurn(r, inTok, outTok, energyCost))
    /\ userDoc' = [userDoc EXCEPT !.energyPoints = newBalance]

\* batch version: batch of the user turn, the assistant turn and energyBalance
CommitBatch(r, inTok, outTok, energyCost, newBalance) ==
    /\ chatHistory' = chatHistory \o
                        <<UserTurn(r), AssistantTurn(r, inTok, outTok, energyCost)>>
    /\ userDoc' = [userDoc EXCEPT !.energyBalance = newBalance]

\* chat.sendMessage resolves: actual cost, negative-balance check, batch commit
ModelReturns(r, usage) ==
    /\ req[r].pc = "calling"
    /\ LET inTok == ActualInputTokens(usage, req[r].estimatedInputTokens)
           outTok == ActualOutputTokens(usage)
           energyCost == EnergyCost(inTok, outTok)
           newBalance == req[r].balance - energyCost
       IN IF NegativeBalance(newBalance)
          THEN /\ req' = [req EXCEPT ![r].pc = "done",
                               ![r].energyCost = energyCost,
                               ![r].response = [NoResponse EXCEPT
                                   !.statusCode = 500, !.reply = TRUE,
                                   !.state_saved = FALSE]]
               /\ UNCHANGED <<userDoc, chatHistory>>
          ELSE /\ req' = [req EXCEPT ![r].pc = "done",
                               ![r].energyCost = energyCost,
                               ![r].response = [NoResponse EXCEPT
                                   !.statusCode = 200, !.reply = TRUE,
                                   !.updatedBalance = newBalance,
                                   !.energyCost = energyCost]]
               /\ IF req[r].version = "eager"
                  THEN CommitEager(r, inTok, outTok, energyCost, newBalance)
                  ELSE CommitBatch(r, inTok, outTok, energyCost, newBalance)
    /\ UNCHANGED <<arrived, webhookVars, client>>

\* chat.sendMessage rejects: nothing catches it, the invocation fails
\* (statusCode 502 stands for the platform's error answer)
ModelFails(r) ==
    /\ req[r].pc = "calling"
    /\ req' = Respond(r, [NoResponse EXCEPT !.statusCode = 502])
    /\ UNCHANGED <<userDoc, chatHistory, arrived, webhookVars, client>>

Chat ==
    \E r \in Reqs :
        \/ SaveUserMessage(r)
        \/ SaveUserMessageFails(r)
        \/ FetchUserDoc(r)
        \/ FetchUserDocBatch(r)
        \/ \E count \in CountResults : CheckBalance(r, count)
        \/ \E usage \in UsageResults : ModelReturns(r, usage)
        \/ ModelFails(r)

\* no request is between its arrival and its answer
NoChatInFlight == \A r \in Reqs : req[r].pc \in {"idle", "done"}

\* chat requests of an account that sends one message at a time
ChatOneAtATime ==
    \E r \in Reqs :
        \/ NoChatInFlight /\ SaveUserMessage(r)
        \/ NoChatInFlight /\ SaveUserMessageFails(r)
        \/ FetchUserDoc(r)
        \/ NoChatInFlight /\ FetchUserDocBatch(r)
        \/ \E count \in CountResults : CheckBalance(r, count)
        \/ \E usage \in UsageResults : ModelReturns(r, usage)
        \/ ModelFails(r)

-----------------------------------------------------------------------------
(* Sign-in of the browser client *)

DEFAULT_ENERGY == 0

\* the two versions of AuthSubscriptionProvider: the onSnapshot version
\* writes energyPoints, the getDoc version writes energyBalance
ClientVersions == {"onSnapshot", "getDoc"}

\* initialEnergy of the document the client creates
InitialEnergy(roleForDocCreation) ==
    IF roleForDocCreation = "monthly" THEN MONTHLY_ENERGY_GRANT
    ELSE IF roleForDocCreation = "annual" THEN ANNUAL_ENERGY_GRANT
    ELSE DEFAULT_ENERGY

\* the document setDoc(userDocRef, {...}) writes (no merge: it replaces)
CreatedUserDoc(version, roleForDocCreation) ==
    [exists |-> TRUE,
     energyPoints |-> IF version = "onSnapshot"
                      THEN InitialEnergy(roleForDocCreation) ELSE 0,
     energyBalance |-> IF version = "getDoc"
                       THEN InitialEnergy(roleForDocCreation) ELSE 0,
     stripeCustomerId |-> "null", stripeSubscriptionId |-> "null",
     stripeRole |-> roleForDocCreation,
     subscriptionStatus |-> IF version = "onSnapshot" /\ roleForDocCreation # "null"
                            THEN "active" ELSE "inactive",
     currentPeriodEnd |-> 0, priceId |-> "null"]

clientFrame == <<subscriptionsStripe, subscriptionStatus, customClaims,
                 chatHistory, req, arrived, delivered, lastDelivery,
                 lastConditions, lastResponse, storeBefore, linkVars, gateVars>>

\* onIdTokenChanged: user.getIdTokenResult(true) resolves (ok) or rejects
GetIdTokenResult(version, ok) ==
    /\ client.pc = "signedOut"
    /\ client' = [pc |-> "token", version |-> version,
                  fetchedRole |-> IF ok THEN customClaims.stripeRole ELSE "null"]
    /\ UNCHANGED <<userDoc, clientFrame>>

\* getDoc(userDocRef) / the first onSnapshot callback
GetUserDoc ==
    /\ client.pc = "token"
    /\ client' = [client EXCEPT !.pc = IF userDoc.exists THEN "ready"
                                                        ELSE "creating"]
    /\ UNCHANGED <<userDoc, clientFrame>>

\* setDoc(userDocRef, newUserDocData) reaches the store
SetUserDoc ==
    /\ client.pc = "creating"
    /\ userDoc' = CreatedUserDoc(client.version, client.fetchedRole)
    /\ client' = [client EXCEPT !.pc = "ready"]
    /\ UNCHANGED clientFrame

SignIn ==
    \/ \E version \in ClientVersions, ok \in BOOLEAN :
           GetIdTokenResult(version, ok)
    \/ GetUserDoc
    \/ SetUserDoc

-----------------------------------------------------------------------------
(* Customer-link resolution *)

\* what a resolver call leaves alone
nonLinkVars == <<userDoc, subscriptionsStripe, subscriptionStatus, customClaims,
                 chatHistory, req, arrived, delivered, lastDelivery,
                 lastConditions, lastResponse, storeBefore, client, gateVars>>

\* one call of findOrCreateStripeCustomer, from its first request to its
\* return
FindOrCreateStripeCustomer(version, uid, email, f) ==
    LET R == Resolve(version, uid, email, customers,
                     stripeCustomerIdClaim[uid], f)
    IN /\ Len(R.customers) <= MaxCustomers
       /\ customers' = R.customers
       /\ stripeCustomerIdClaim' =
              [stripeCustomerIdClaim EXCEPT ![uid] = R.pointer]
       /\ lastCall' = [version |-> version, uid |-> uid,
                       retrieveRejected |-> f.retrieve,
                       customerId |-> R.customerId, error |-> R.error,
                       pointerBefore |-> stripeCustomerIdClaim[uid]]
       /\ UNCHANGED nonLinkVars

\* a customer is deleted at the payment processor (dashboard or API)
CustomerDeleted(i) ==
    /\ i \in DOMAIN customers
    /\ ~customers[i].deleted
    /\ customers' = [customers EXCEPT ![i].deleted = TRUE]
    /\ lastCall' = NoCall
    /\ UNCHANGED <<stripeCustomerIdClaim, nonLinkVars>>

\* a customer without metadata.firebaseUid is created at the payment
\* processor outside the resolver
CustomerCreatedOutside(email) ==
    /\ Len(customers) < MaxCustomers
    /\ customers' = Append(customers, Customer(email, "null"))
    /\ lastCall' = NoCall
    /\ UNCHANGED <<stripeCustomerIdClaim, nonLinkVars>>

-----------------------------------------------------------------------------
(* Access-code verification *)

\* what a verification request leaves alone
nonGateVars == <<userDoc, subscriptionsStripe, subscriptionStatus, customClaims,
                 chatHistory, req, arrived, delivered, lastDelivery,
                 lastConditions, lastResponse, storeBefore, client, linkVars>>

VerificationAnswer(v, statusCode, verified) ==
    [verification EXCEPT ![v].pc = "done", ![v].statusCode = statusCode,
                         ![v].verified = verified]

\* request v arrives with email and accessCode in its body and runs
\* accessCodesRef.where('code', '==', accessCode).limit(1).get()
QueryAccessCode(v, email, accessCode) ==
    /\ verification[v].pc = "idle"
    /\ \A w \in Verifications : w < v => verification[w].pc # "idle"
    /\ verification' = [verification EXCEPT ![v] =
           [@ EXCEPT !.pc = "queried", !.email = email,
                     !.accessCode = accessCode,
                     !.empty = accessCode \notin StoredCodes,
                     !.codeData = IF accessCode \in StoredCodes
                                  THEN accessCodes[accessCode]
                                  ELSE NoCodeData]]
    /\ UNCHANGED <<accessCodes, nonGateVars>>

\* the checks on the snapshot that answer without a write
AnswerFromSnapshot(v) ==
    /\ verification[v].pc = "queried"
    /\ LET r == verification[v]
       IN /\ r.empty \/ ~r.codeData.isValid \/ r.codeData.isUsed
          /\ verification' =
               IF r.empty \/ ~r.codeData.isValid
               THEN VerificationAnswer(v, 400, FALSE)
               ELSE IF UsedByAnother(r.codeData, r.email)
                    THEN VerificationAnswer(v, 400, FALSE)
                    ELSE VerificationAnswer(v, 200, TRUE)
    /\ UNCHANGED <<accessCodes, nonGateVars>>

\* the snapshot is valid and unused: doc.ref.update(...) resolves (ok) or
\* rejects
MarkAccessCodeUsed(v, ok) ==
    /\ verification[v].pc = "queried"
    /\ LET r == verification[v]
       IN /\ ~r.empty /\ r.codeData.isValid /\ ~r.codeData.isUsed
          /\ accessCodes' =
               IF ok THEN [accessCodes EXCEPT ![r.accessCode] =
                               MarkUsed(@, r.email, v)]
                     ELSE accessCodes
          /\ verification' = IF ok THEN VerificationAnswer(v, 200, TRUE)
                                   ELSE VerificationAnswer(v, 500, FALSE)
    /\ UNCHANGED nonGateVars

\* a request runs to its answer
FinishVerification ==
    \E v \in Verifications :
        \/ AnswerFromSnapshot(v)
        \/ \E ok \in BOOLEAN : MarkAccessCodeUsed(v, ok)

\* no request is between its query and its answer
NoVerificationInFlight ==
    \A v \in Verifications : verification[v].pc # "queried"

-----------------------------------------------------------------------------
(* Webhook deliveries *)

\* endpoint h receives event e under conditions c
Receive(h, e, c) ==
    /\ delivered < MaxEvents
    /\ arrived + delivered < MaxOps
    /\ LET R == Endpoint(h, store, e, c)
       IN /\ userDoc' = R.store.userDoc
          /\ subscriptionsStripe' = R.store.subscriptionsStripe
          /\ subscriptionStatus' = R.store.subscriptionStatus
          /\ customClaims' = R.store.customClaims
          /\ lastResponse' = [statusCode |-> R.statusCode, handled |-> R.handled]
    /\ delivered' = delivered + 1
    /\ lastDelivery' = [handler |-> h, event |-> e]
    /\ lastConditions' = c
    /\ storeBefore' = store
    /\ UNCHANGED <<chatHistory, req, arrived, client, linkVars, gateVars>>

\* endpoint h processes the verified event e, no call failing
Deliver(h, e) == Receive(h, e, Normal)

DeliverHandler(e) == Deliver("stripe-webhook-handler", e)
DeliverStripeWebhook(e) == Deliver("stripe-webhook", e)
DeliverHandlerV1(e) == Deliver("stripe-webhook-handler-v1", e)

Webhook(events) ==
    \E e \in events :
        \/ DeliverHandler(e)
        \/ DeliverStripeWebhook(e)
        \/ DeliverHandlerV1(e)

-----------------------------------------------------------------------------
(* Specifications *)

\* chat requests interleaved with webhook deliveries
Next ==
    \/ Chat
    \/ Webhook(RaceEvents)

Spec == Init /\ [][Next]_vars

\* chat requests only
SpecChat == Init /\ [][Chat]_vars

\* webhook deliveries only, over all events
NextWebhook == Webhook(Events)

SpecWebhook == Init /\ [][NextWebhook]_vars

\* the events posted to the endpoints under all delivery conditions
EndpointEvents == {e \in Events : /\ e.linked
                                  /\ e.metadataUid = (e.type = "checkout.session.completed")
                                  /\ e.status = "active"
                                  /\ e.priceId = monthlyPriceId}

\* webhook deliveries only, signed or not, with failing calls
NextEndpoint ==
    \E h \in Handlers, e \in EndpointEvents, c \in DeliveryConditions :
        Receive(h, e, c)

SpecEndpoint == Init /\ [][NextEndpoint]_vars

\* a sign-in of the browser client interleaved with webhook deliveries
\* calls of the customer-link resolution and changes of the customer list
NextResolver ==
    \/ \E version \in ResolverVersions, caller \in Callers, f \in FaultCases :
           FindOrCreateStripeCustomer(version, caller[1], caller[2], f)
    \/ \E i \in 1..MaxCustomers : CustomerDeleted(i)
    \/ CustomerCreatedOutside("a@x")

\* the resolver reads no document of the store: one initial store
InitResolver == Init /\ ~userDoc.exists

SpecResolver == InitResolver /\ [][NextResolver]_vars

\* chat requests one at a time, webhook deliveries at any moment
NextLedger ==
    \/ ChatOneAtATime
    \/ Webhook(RaceEvents)

SpecLedger == Init /\ [][NextLedger]_vars

\* verification requests, interleaved
NextGate ==
    \/ \E v \in Verifications, email \in GateEmails, accessCode \in RequestCodes :
           QueryAccessCode(v, email, accessCode)
    \/ FinishVerification

SpecGate == Init /\ [][NextGate]_vars

\* verification requests, one at a time
NextGateSequential ==
    \/ \E v \in Verifications, email \in GateEmails, accessCode \in RequestCodes :
           NoVerificationInFlight /\ QueryAccessCode(v, email, accessCode)
    \/ FinishVerification

SpecGateSequential == Init /\ [][NextGateSequential]_vars

NextSignIn ==
    \/ SignIn
    \/ Webhook(RaceEvents)

SpecSignIn == Init /\ [][NextSignIn]_vars

-----------------------------------------------------------------------------
(* Properties *)

\* number of turns of request r with the given role in history h
TurnsOf(r, role, h) ==
    Cardinality({i \in DOMAIN h : h[i].req = r /\ h[i].role = role})

\* the balance field the version of the chat handler reads and writes
BalanceOf(version, doc) ==
    IF version = "eager" THEN doc.energyPoints ELSE doc.energyBalance

\* the three energy balances kept in the store
Balances(S) == <<S.userDoc.energyPoints, S.userDoc.energyBalance,
                 S.subscriptionStatus.energyBalance>>

\* request r got an answer after its model call returned
Completed(r) ==
    /\ req[r].pc = "done"
    /\ req[r].modelCalls = 1
    /\ req[r].response.statusCode \in {200, 500}

Committed(r) == req[r].pc = "done" /\ req[r].response.statusCode = 200

\* C1: in every reachable state, after any interleaving of chat requests
\* and webhook deliveries, every committed energy balance of the account
\* is >= 0.
C1_BalanceNonNegative ==
    /\ userDoc.energyPoints >= 0
    /\ userDoc.energyBalance >= 0
    /\ subscriptionStatus.energyBalance >= 0

\* a chat request has debited the account and a webhook was processed
C1_Witness ==
    /\ delivered > 0
    /\ \E r \in Reqs : Committed(r) /\ req[r].energyCost > 0

\* C2: two requests of the same handler that passed admission against the
\* same balance B and completed their model calls leave the balance at B
\* minus the cost of every one of them that committed: no debit is lost.
C2_NoLostDebit ==
    \A r1, r2 \in Reqs :
        (/\ r1 < r2
         /\ Completed(r1) /\ Completed(r2)
         /\ req[r1].version = req[r2].version
         /\ req[r1].balance = req[r2].balance)
        => BalanceOf(req[r1].version, userDoc) =
             req[r1].balance
               - (IF Committed(r1) THEN req[r1].energyCost ELSE 0)
               - (IF Committed(r2) THEN req[r2].energyCost ELSE 0)

\* C3: a delivery of the event that the same endpoint processed just before
\* leaves balance, tier and subscription fields as the first delivery left
\* them.
C3_ReplayIdempotent ==
    [][(delivered' = delivered + 1 /\ lastDelivery' = lastDelivery)
        => UNCHANGED <<userDoc, subscriptionsStripe, subscriptionStatus,
                       customClaims>>]_vars

C5_EstimateDominatesActual ==
    \A r \in Reqs :
        Completed(r) => req[r].maxPotentialEnergyCost >= req[r].energyCost

\* C6: the step that finds the actual cost above the balance answers 500
\* with the reply and state_saved:false, appends no assistant turn, leaves
\* the account unchanged, and the user's message is in the history.
C6_AbortKeepsUserMessage ==
    [][\A r \in Reqs :
         (/\ req[r].pc = "calling"
          /\ req'[r].pc = "done"
          /\ req'[r].energyCost > req[r].balance)
         => /\ req'[r].response.statusCode = 500
            /\ req'[r].response.reply
            /\ ~req'[r].response.state_saved
            /\ userDoc' = userDoc
            /\ TurnsOf(r, "assistant", chatHistory') = 0
            /\ TurnsOf(r, "user", chatHistory') = 1]_vars

\* C7: the step that commits a request (200) appends exactly one assistant
\* turn carrying the actual cost, leaves the request's user turn in the
\* history exactly once, and lowers the balance by exactly the energy cost
\* of the response.
C7_CommitDebitsExactly ==
    [][\A r \in Reqs :
         (req[r].pc = "calling" /\ req'[r].response.statusCode = 200)
         => /\ TurnsOf(r, "assistant", chatHistory') = 1
            /\ chatHistory'[Len(chatHistory')] =
                 [chatHistory'[Len(chatHistory')] EXCEPT
                     !.role = "assistant", !.req = r,
                     !.energyCost = req'[r].response.energyCost]
            /\ TurnsOf(r, "user", chatHistory') = 1
            /\ BalanceOf(req[r].version, userDoc') =
                 BalanceOf(req[r].version, userDoc) - req'[r].response.energyCost]_vars

\* C8: the step in which the model call of a request fails leaves the
\* request's user turn in the history exactly once, no assistant turn, and
\* the account unchanged.
C8_ModelFailureKeepsUserTurn ==
    [][\A r \in Reqs :
         (/\ req[r].pc = "calling"
          /\ req'[r].pc = "done"
          /\ req'[r].response.statusCode = 502)
         => /\ userDoc' = userDoc
            /\ TurnsOf(r, "assistant", chatHistory') = 0
            /\ TurnsOf(r, "user", chatHistory') = 1]_vars

\* C9: a request rejected with 402 has written nothing: no turn of it is
\* in the persisted history.
C9_RejectionMutatesNothing ==
    \A r \in Reqs :
        (req[r].pc = "done" /\ req[r].response.statusCode = 402)
        => /\ TurnsOf(r, "user", chatHistory) = 0
           /\ TurnsOf(r, "assistant", chatHistory) = 0

\* C10: the energy balances after two deliveries equal the balances after
\* the same two deliveries processed in the opposite order.
C10_BalanceOrderIndependent ==
    [][(delivered' = delivered + 1 /\ delivered >= 1)
        => Balances(store') =
             Balances(Process(lastDelivery.handler,
                              Process(lastDelivery'.handler, storeBefore,
                                      lastDelivery'.event),
                              lastDelivery.event))]_vars

\* the account has no subscription recorded anywhere
NoPriorSubscription(S) ==
    /\ S.customClaims.stripeRole = "null"
    /\ S.userDoc.stripeRole = "null"
    /\ S.userDoc.stripeSubscriptionId = "null"
    /\ ~S.subscriptionsStripe.exists
    /\ ~S.subscriptionStatus.exists

\* the latest delivery is a checkout of an active monthly subscription
MonthlyCheckoutDelivered ==
    /\ delivered > 0
    /\ lastDelivery.event.type = "checkout.session.completed"
    /\ lastDelivery.event.status = "active"
    /\ lastDelivery.event.priceId = monthlyPriceId

C12_DeletedKeepsBalance ==
    (/\ delivered > 0
     /\ lastDelivery.event.type = "customer.subscription.deleted"
     /\ lastDelivery.event.linked)
    => /\ Balances(store) = Balances(storeBefore)
       /\ lastDelivery.handler = "stripe-webhook-handler"
          => /\ customClaims.stripeRole = "null"
             /\ userDoc.exists
                => /\ userDoc.stripeRole = "null"
                   /\ userDoc.priceId = "null"
                   /\ userDoc.currentPeriodEnd = 0
       /\ lastDelivery.handler = "stripe-webhook"
          => /\ subscriptionsStripe.planId = "null"
             /\ subscriptionsStripe.currentPeriodEnd = 0
       /\ lastDelivery.handler = "stripe-webhook-handler-v1"
          => /\ customClaims.stripeRole = "null"
             /\ subscriptionStatus.plan = "null"
             /\ subscriptionStatus.endDate = 0

\* the tier of a subscription snapshot as the claim C13 states it
TierOfSnapshot(status, priceId) ==
    IF status \in {"active", "trialing"} /\ priceId = monthlyPriceId THEN "monthly"
    ELSE IF status \in {"active", "trialing"} /\ priceId = annualPriceId THEN "annual"
    ELSE "null"

\* C13: the tier an endpoint derives from the subscription of a checkout or
\* subscription-updated event of a linked account is monthly resp. annual
\* when the status is active or trialing and the price is the monthly resp.
\* annual plan, and none otherwise (past_due and canceled yield none).
C13_TierDerivation ==
    (/\ delivered > 0
     /\ lastDelivery.handler \in {"stripe-webhook-handler",
                                  "stripe-webhook-handler-v1"}
     /\ lastDelivery.event.type \in {"checkout.session.completed",
                                     "customer.subscription.updated"}
     /\ lastDelivery.event.linked)
    => customClaims.stripeRole =
         TierOfSnapshot(lastDelivery.event.status, lastDelivery.event.priceId)

\* endpoint h finds the account of checkout session e: from the session
\* metadata, or from the metadata of the Stripe customer
ResolvesCheckout(h, e) ==
    IF h = "stripe-webhook-handler" THEN e.metadataUid \/ e.linked
    ELSE IF h = "stripe-webhook" THEN e.metadataUid
    ELSE e.linked

\* C14: after a checkout-completed event whose price id is neither the
\* monthly nor the annual plan, or whose account the endpoint cannot
\* resolve, the answer is 200 and no energy balance has changed.
C14_UnknownCheckoutSkipped ==
    (/\ delivered > 0
     /\ lastDelivery.event.type = "checkout.session.completed"
     /\ \/ lastDelivery.event.priceId \notin {monthlyPriceId, annualPriceId}
        \/ ~ResolvesCheckout(lastDelivery.handler, lastDelivery.event))
    => /\ lastResponse.statusCode = 200
       /\ Balances(store) = Balances(storeBefore)

\* the Firestore documents of the account
Documents(S) == <<S.userDoc, S.subscriptionsStripe, S.subscriptionStatus>>

\* the latest delivery was verified in production
VerifiedDelivery ==
    /\ delivered > 0
    /\ lastConditions.sig = "valid"
    /\ ~lastConditions.dev

\* the latest delivery had documents to write and its writes rejected
WriteLost ==
    /\ lastConditions.writeFails
    /\ Documents(Process(lastDelivery.handler, storeBefore, lastDelivery.event))
         # Documents(storeBefore)

\* the latest delivery had a subscription to fetch and the fetch rejected
FetchLost ==
    /\ lastConditions.retrieveFails
    /\ \/ /\ lastDelivery.event.type = "checkout.session.completed"
          /\ ResolvesCheckout(lastDelivery.handler, lastDelivery.event)
       \/ /\ lastDelivery.event.type = "invoice.payment_succeeded"
          /\ lastDelivery.handler = "stripe-webhook"
          /\ lastDelivery.event.linked

\* C15: a verified delivery whose document write failed, or whose
\* subscription could not be fetched, is answered with 500.
C15_FailureAnswers500 ==
    (VerifiedDelivery /\ (WriteLost \/ FetchLost))
    => lastResponse.statusCode = 500

\* C16 as stated: a delivery whose signature is missing or invalid is
\* answered with 400 and changes nothing in the store.
C16_UnsignedNeverProcessed ==
    (delivered > 0 /\ lastConditions.sig # "valid")
    => /\ lastResponse.statusCode = 400
       /\ store = storeBefore

\* the endpoint of the latest delivery ran in development mode, where the two
\* versions of stripe-webhook-handler.ts parse the body without verifying it
DevelopmentBypass ==
    /\ lastConditions.dev
    /\ lastDelivery.handler \in {"stripe-webhook-handler",
                                 "stripe-webhook-handler-v1"}

\* C16 amended: unless the endpoint runs in development mode, a delivery
\* whose signature is missing or invalid is answered with 400 and changes
\* nothing in the store.
C16_UnsignedRejectedOutsideDevelopment ==
    (delivered > 0 /\ lastConditions.sig # "valid" /\ ~DevelopmentBypass)
    => /\ lastResponse.statusCode = 400
       /\ store = storeBefore

\* a production endpoint answered 400 to a checkout event with an invalid
\* signature that it would have processed had the signature been valid
C16_Witness ==
    /\ delivered > 0
    /\ lastConditions.sig = "invalid"
    /\ ~lastConditions.dev
    /\ lastDelivery.event.type = "checkout.session.completed"
    /\ Process(lastDelivery.handler, storeBefore, lastDelivery.event) # storeBefore
    /\ lastResponse.statusCode = 400
    /\ store = storeBefore

\* C17: processing an invoice-paid event (invoice.payment_succeeded,
\* invoice.paid) leaves every energy balance of the account as it was; a
\* checkout followed by the invoice of the same cycle grants once.
C17_InvoiceNeverGrants ==
    (/\ delivered > 0
     /\ lastDelivery.event.type \in {"invoice.payment_succeeded", "invoice.paid"})
    => Balances(store) = Balances(storeBefore)

\* stripe-webhook.ts reconciled the subscription document on the invoice
\* that followed a monthly checkout, the balance holding the one grant
C17_Witness ==
    /\ delivered = 2
    /\ lastDelivery.handler = "stripe-webhook"
    /\ lastDelivery.event.type = "invoice.payment_succeeded"
    /\ lastDelivery.event.linked
    /\ lastDelivery.event.status = "active"
    /\ storeBefore.subscriptionsStripe.status = "active"
    /\ subscriptionsStripe.status = "active"
    /\ storeBefore.userDoc.energyBalance = 25 + MONTHLY_ENERGY_GRANT
    /\ userDoc.energyBalance = 25 + MONTHLY_ENERGY_GRANT

\* the energy balances and the tier fields of the account
BalancesAndTier(S) ==
    <<S.userDoc.energyPoints, S.userDoc.energyBalance,
      S.subscriptionStatus.energyBalance, S.userDoc.stripeRole,
      S.customClaims.stripeRole>>

\* C18: every step that changes an energy balance or a tier field of the
\* account is the commit of a chat request or a webhook delivery; no step of
\* the browser client changes them.
C18_ClientNeverSetsBalance ==
    [][BalancesAndTier(store') # BalancesAndTier(store)
        => \/ delivered' = delivered + 1
           \/ \E r \in Reqs : /\ req[r].pc = "calling"
                               /\ req'[r].response.statusCode = 200]_vars

\* the energy the one delivery so far added to the balances of the account
GrantedByDelivery ==
    (userDoc.energyPoints - storeBefore.userDoc.energyPoints)
    + (userDoc.energyBalance - storeBefore.userDoc.energyBalance)
    + (subscriptionStatus.energyBalance
         - storeBefore.subscriptionStatus.energyBalance)

\* C19: when a checkout-completed event has granted G to an account whose
\* balance was B and no chat request has committed, the balance the next
\* chat request reads for its guard is B + G.
C19_GuardReadsGrantedEnergy ==
    [][\A r \in Reqs :
         (/\ delivered = 1
          /\ lastDelivery.event.type = "checkout.session.completed"
          /\ GrantedByDelivery > 0
          /\ \A q \in Reqs : ~Committed(q)
          /\ req[r].pc # "read"
          /\ req'[r].pc = "read")
         => req'[r].balance =
              BalanceOf(req'[r].version, storeBefore.userDoc)
                + GrantedByDelivery]_vars

\* C20: the worst-case estimate of every checked request and the energy
\* cost of every assistant turn equal the tiered reference applied to the
\* same token counts: the higher prices when the input exceeds 200000
\* tokens, the lower ones otherwise, energy = ceil(usd * 250).
C20_TieredPricing ==
    /\ \A r \in Reqs :
          req[r].maxPotentialEnergyCost > 0
          => req[r].maxPotentialEnergyCost =
               calculateGeminiCost(req[r].estimatedInputTokens, maxOutputTokens)
    /\ \A i \in DOMAIN chatHistory :
          chatHistory[i].role = "assistant"
          => chatHistory[i].energyCost =
               calculateGeminiCost(chatHistory[i].input, chatHistory[i].output)

\* the energy endpoint h adds to the balances of store S on event e
EnergyGranted(h, S, e) ==
    LET T == Process(h, S, e)
    IN (T.userDoc.energyPoints - S.userDoc.energyPoints)
       + (T.userDoc.energyBalance - S.userDoc.energyBalance)
       + (T.subscriptionStatus.energyBalance - S.subscriptionStatus.energyBalance)

\* the latest delivery is a checkout of an active annual subscription that
\* the endpoint resolved to the account
AnnualCheckoutDelivered ==
    /\ delivered > 0
    /\ lastConditions = Normal
    /\ lastDelivery.event.type = "checkout.session.completed"
    /\ lastDelivery.event.status = "active"
    /\ lastDelivery.event.priceId = annualPriceId
    /\ ResolvesCheckout(lastDelivery.handler, lastDelivery.event)

\* what the endpoint of the latest delivery grants for the same checkout of
\* the monthly plan
MonthlyGrantOfEndpoint ==
    EnergyGranted(lastDelivery.handler, storeBefore,
                  [lastDelivery.event EXCEPT !.priceId = monthlyPriceId])

\* C21 as stated: the energy an endpoint grants for an annual checkout
\* differs from what it grants for a monthly checkout and is greater than 12
\* times the monthly grant.
C21_AnnualExceedsTwelveMonthly ==
    AnnualCheckoutDelivered =>
        /\ GrantedByDelivery # MonthlyGrantOfEndpoint
        /\ GrantedByDelivery > 12 * MonthlyGrantOfEndpoint

\* C21 amended: the energy an endpoint grants for an annual checkout differs
\* from what it grants for a monthly checkout, is greater than 10 times the
\* monthly grant and less than 12 times the monthly grant.
C21_AnnualExceedsTenMonthly ==
    AnnualCheckoutDelivered =>
        /\ MonthlyGrantOfEndpoint > 0
        /\ GrantedByDelivery # MonthlyGrantOfEndpoint
        /\ GrantedByDelivery > 10 * MonthlyGrantOfEndpoint
        /\ GrantedByDelivery < 12 * MonthlyGrantOfEndpoint

\* stripe-webhook.ts processed an annual checkout and added 111111 where a
\* monthly checkout adds 11111
C21_Witness ==
    /\ AnnualCheckoutDelivered
    /\ lastDelivery.handler = "stripe-webhook"
    /\ userDoc.energyBalance = storeBefore.userDoc.energyBalance + 111111
    /\ MonthlyGrantOfEndpoint = 11111

\* the faults of a call that Stripe answers: only the writes the resolver
\* tolerates (customers.update, setCustomUserClaims) may reject, and
\* retrieve may report that the customer no longer exists
AnsweredFaults == {f \in FaultCases : ~f.list /\ ~f.create}

\* C22: in every reachable state, two calls in sequence of the same version
\* of findOrCreateStripeCustomer for the same account and email, Stripe
\* answering both the same way, return the same customer id, and the second
\* creates no customer; the first creates at most one.  The writes of the
\* metadata and of the cached pointer may fail in either call.
C22_ResolutionIdempotent ==
    \A version \in ResolverVersions, caller \in Callers,
       f1 \in AnsweredFaults, f2 \in AnsweredFaults :
        f1.retrieve = f2.retrieve =>
            LET R1 == Resolve(version, caller[1], caller[2], customers,
                              stripeCustomerIdClaim[caller[1]], f1)
                R2 == Resolve(version, caller[1], caller[2], R1.customers,
                              R1.pointer, f2)
            IN /\ R1.customerId # 0
               /\ R2.customerId = R1.customerId
               /\ Len(R1.customers) <= Len(customers) + 1
               /\ R2.customers = R1.customers \/
                    /\ Len(R2.customers) = Len(R1.customers)
                    /\ \A i \in DOMAIN R1.customers :
                          /\ R2.customers[i].email = R1.customers[i].email
                          /\ R2.customers[i].deleted = R1.customers[i].deleted

\* a call of utils/stripeUtils created a customer for an account without a
\* cached pointer, the write of the pointer failed, and the next call
\* returns the customer it created
C22_Witness ==
    /\ lastCall.version = "stripeUtils"
    /\ lastCall.pointerBefore = 0
    /\ lastCall.customerId = Len(customers)
    /\ lastCall.error
    /\ stripeCustomerIdClaim[lastCall.uid] = 0
    /\ customers[lastCall.customerId].firebaseUid = lastCall.uid
    /\ Resolve("stripeUtils", lastCall.uid,
               customers[lastCall.customerId].email, customers, 0,
               NoFault).customerId = lastCall.customerId

\* the latest call is one of utils/stripeUtils for an account whose cached
\* pointer referred to a deleted customer or to one that retrieve rejected
StalePointerCall ==
    /\ lastCall.version = "stripeUtils"
    /\ lastCall.pointerBefore # 0
    /\ \/ customers[lastCall.pointerBefore].deleted
       \/ lastCall.retrieveRejected

\* C23: a call whose cached pointer was stale and that returned a customer
\* id returned a customer that is not deleted, not the deleted one of the
\* pointer, and when it returned no error the cached pointer is that id.
C23_StalePointerHealed ==
    (StalePointerCall /\ lastCall.customerId # 0) =>
        /\ ~customers[lastCall.customerId].deleted
        /\ customers[lastCall.pointerBefore].deleted
              => lastCall.customerId # lastCall.pointerBefore
        /\ ~lastCall.error
              => stripeCustomerIdClaim[lastCall.uid] = lastCall.customerId

\* the pointer referred to a deleted customer; the call created a new one
\* and cached it
C23_Witness ==
    /\ StalePointerCall
    /\ customers[lastCall.pointerBefore].deleted
    /\ ~lastCall.error
    /\ lastCall.customerId = Len(customers)
    /\ lastCall.customerId # lastCall.pointerBefore
    /\ stripeCustomerIdClaim[lastCall.uid] = lastCall.customerId

\* C24: after a call of utils/stripeUtils that returned customer id c and no
\* error, the metadata of c carries the account id and the cached pointer of
\* the account is c.
C24_SuccessWritesTagAndPointer ==
    (/\ lastCall.version = "stripeUtils"
     /\ lastCall.customerId # 0
     /\ ~lastCall.error)
    => /\ customers[lastCall.customerId].firebaseUid = lastCall.uid
       /\ stripeCustomerIdClaim[lastCall.uid] = lastCall.customerId

\* C25: with verification requests running one at a time, a request that
\* finds its code in use is answered verified:true when usedByEmail is its
\* email and verified:false otherwise, and leaves the code record
\* (usedByEmail, usedTimestamp) as it was.
C25_ConsumedCodeStaysWithItsEmail ==
    [][\A v \in Verifications :
          (/\ verification[v].pc = "queried"
           /\ verification'[v].pc = "done"
           /\ verification[v].accessCode \in StoredCodes
           /\ accessCodes[verification[v].accessCode].isUsed)
          => /\ accessCodes' = accessCodes
             /\ verification'[v].verified =
                  (accessCodes[verification[v].accessCode].usedByEmail
                     = verification[v].email)
             /\ verification'[v].statusCode =
                  IF verification'[v].verified THEN 200 ELSE 400]_vars

\* a@x consumed the invitation in request 1; request 2 of b@x was refused,
\* request 3 of a@x accepted, and the record is as request 1 wrote it
C25_Witness ==
    /\ \A v \in Verifications : /\ verification[v].pc = "done"
                                /\ verification[v].accessCode = "invite"
    /\ verification[1].email = "a@x" /\ verification[1].verified
    /\ verification[2].email = "b@x" /\ ~verification[2].verified
    /\ verification[2].statusCode = 400
    /\ verification[3].email = "a@x" /\ verification[3].verified
    /\ verification[3].codeData.isUsed
    /\ accessCodes["invite"] = MarkUsed(NewAccessCode(TRUE), "a@x", 1)

\* C28: under any interleaving of verification requests, the requests
\* answered verified:true for one code all carry the same email.
C28_OneEmailPerCode ==
    \A v \in Verifications, w \in Verifications :
        (/\ verification[v].pc = "done" /\ verification[v].verified
         /\ verification[w].pc = "done" /\ verification[w].verified
         /\ verification[v].accessCode = verification[w].accessCode)
        => verification[v].email = verification[w].email

\* the turns of a snapshot other than the user turn of request r
PersistedBefore(snapshot, r) ==
    LET Other(t) == t # userMessage(r)
    IN SelectSeq(History(snapshot), Other)

\* C26: when a chat request has read the history and goes on to call the
\* model, the turn sequence it hands over is the preamble, then the turns
\* persisted so far other than its own user turn, in stored order, then its
\* own user turn, once and last; no stored turn carries the preamble.
C26_ModelInputWellFormed ==
    [][\A r \in Reqs :
          (req[r].pc = "read" /\ req'[r].pc = "calling")
          => /\ ModelInput(req[r].version, chatHistory, r) =
                  INITIAL_CONVERSATION_PRELOAD
                    \o PersistedBefore(chatHistory, r) \o <<userMessage(r)>>
             /\ \A i \in DOMAIN chatHistory' :
                    Content(chatHistory'[i]) \notin
                        {INITIAL_CONVERSATION_PRELOAD[k] : k \in 1..2}]_vars

\* C27: when the balance a chat request read has since been raised by a
\* webhook grant G, the step that commits the request with cost c leaves
\* the stored balance at its value before the step minus c, that is at
\* B + G - c.
C27_GrantInFlightPreserved ==
    [][\A r \in Reqs :
          (/\ req[r].pc = "calling"
           /\ req'[r].response.statusCode = 200
           /\ BalanceOf(req[r].version, userDoc) > req[r].balance)
          => BalanceOf(req[r].version, userDoc') =
               BalanceOf(req[r].version, userDoc)
                 - req'[r].response.energyCost]_vars

\* the energy the account holds, over the balance fields of the store
TotalEnergy(S) ==
    S.userDoc.energyPoints + S.userDoc.energyBalance
        + S.subscriptionStatus.energyBalance

\* the energyCost of the assistant turns history h holds beyond the first n
RECURSIVE CostOfTurnsAfter(_, _)
CostOfTurnsAfter(h, n) ==
    IF Len(h) <= n THEN 0
    ELSE CostOfTurnsAfter(SubSeq(h, 1, Len(h) - 1), n)
           + (IF h[Len(h)].role = "assistant" THEN h[Len(h)].energyCost ELSE 0)

\* C29, step by step: with chat requests running one at a time, a webhook
\* delivery never lowers the energy of the account and appends no turn, and
\* every other step lowers it by exactly the energyCost of the assistant
\* turns it appends; so the balance is the initial balance plus the grants
\* minus the costs in the history, one debit per assistant turn.
C29_LedgerReconciles ==
    [][/\ delivered' = delivered + 1
          => /\ TotalEnergy(store') >= TotalEnergy(store)
             /\ chatHistory' = chatHistory
       /\ delivered' = delivered
          => TotalEnergy(store') =
               TotalEnergy(store)
                 - CostOfTurnsAfter(chatHistory', Len(chatHistory))]_vars

\* C30: after an endpoint processed a subscription-updated event whose
\* snapshot derives tier none (a status other than active or trialing, or a
\* price that is neither plan), no energy balance is greater than before
\* the event.
C30_UpdateWithoutTierGrantsNothing ==
    (/\ delivered > 0
     /\ lastDelivery.event.type = "customer.subscription.updated"
     /\ TierOfSnapshot(lastDelivery.event.status,
                       lastDelivery.event.priceId) = "null")
    => /\ userDoc.energyPoints <= storeBefore.userDoc.energyPoints
       /\ userDoc.energyBalance <= storeBefore.userDoc.energyBalance
       /\ subscriptionStatus.energyBalance
            <= storeBefore.subscriptionStatus.energyBalance

=============================================================================
